---- MODULE Spec2Model ----
(***************************************************************************)
(* The artifact-to-volume data-passing rewriter of                         *)
(* backend/metadata_writer/src/metadata_helpers.py: transform_workflow,    *)
(* rewrite_data_passing and its reference translator                       *)
(* convert_artifact_reference_to_parameter_reference.                      *)
(*                                                                         *)
(* Python values are modelled as follows.  A str is the sequence of its    *)
(* characters.  A dict is a function whose domain is its set of keys, so   *)
(* `k in d` is k \in DOMAIN d.  A list is a sequence.  Objects that the    *)
(* program shares by reference (the caller's workflow, its deep copy, the  *)
(* volume descriptor) live in `heap` and are named by an object id.        *)
(***************************************************************************)
EXTENDS Integers, Sequences, FiniteSets, TLC

VARIABLES
    pc,                      \* where the call is
    heap,                    \* object id -> value of the object
    args,                    \* the caller's arguments to transform_workflow
    snapshot,                \* the caller's pre-call copies of its arguments
    workflow,                \* local `workflow` of rewrite_data_passing: an object id
    volume,                  \* local `volume` of rewrite_data_passing: an object id
    path_prefix,             \* local `path_prefix`
    idx,                     \* position of the running `for template in templates` loop
    container_spec,          \* local `container_spec`: which dict it is bound to
    all_artifact_file_names, \* local set of artifact file basenames
    warnings,                \* number of warnings.warn calls made
    error,                   \* the exception the call raised
    result,                  \* the object id the call returned
    tokens,                  \* the tokens the translator's argument is made of
    reference,               \* argument of the reference translator
    translated,              \* its result
    retranslated             \* the result of translating `translated`

vars == <<pc, heap, args, snapshot, workflow, volume, path_prefix, idx,
          container_spec, all_artifact_file_names, warnings, error, result,
          tokens, reference, translated, retranslated>>

translatorVars == <<tokens, reference, translated, retranslated>>

rewriteVars == <<heap, args, snapshot, workflow, volume, path_prefix, idx,
                 container_spec, all_artifact_file_names, warnings, error, result>>

(***************************************************************************)
(* Bounds of the model.                                                    *)
(***************************************************************************)
\* Largest number of templates in an input workflow.
MaxTemplates == 4
\* Largest number of tokens concatenated into a translator input.
MaxTokens == 2

(***************************************************************************)
(* String constants of the program.                                        *)
(***************************************************************************)
data_volume_name == <<"d", "a", "t", "a", "-", "s", "t", "o", "r", "a", "g", "e">>
subpath_parameter_name_suffix == <<"-", "s", "u", "b", "p", "a", "t", "h">>
default_path_prefix == <<"a", "r", "t", "i", "f", "a", "c", "t", "_", "d", "a", "t", "a", "/">>
\* '{{workflow.uid}}_{{pod.name}}/'
execution_dir_suffix == <<"{", "{", "w", "o", "r", "k", "f", "l", "o", "w", ".", "u", "i", "d", "}", "}", "_", "{", "{", "p", "o", "d", ".", "n", "a", "m", "e", "}", "}", "/">>
\* '{{inputs.parameters.'
inputs_parameters_open == <<"{", "{", "i", "n", "p", "u", "t", "s", ".", "p", "a", "r", "a", "m", "e", "t", "e", "r", "s", ".">>
open_braces == <<"{", "{">>
close_braces == <<"}", "}">>
dot_artifacts_dot == <<".", "a", "r", "t", "i", "f", "a", "c", "t", "s", ".">>
dot_parameters_dot == <<".", "p", "a", "r", "a", "m", "e", "t", "e", "r", "s", ".">>

(***************************************************************************)
(* Python dict and list operations.                                        *)
(***************************************************************************)
EmptyDict == [k \in {} |-> <<>>]
EmptyList == <<>>

\* k in d
Has(d, k) == k \in DOMAIN d
\* d.get(k, default)
Get(d, k, default) == IF k \in DOMAIN d THEN d[k] ELSE default
\* d[k] = v
Put(d, k, v) == [x \in (DOMAIN d) \cup {k} |-> IF x = k THEN v ELSE d[x]]
\* del d[k]
Del(d, k) == [x \in (DOMAIN d) \ {k} |-> d[x]]

\* d[k] = default, whatever d held
SetDefaultOverwriting(d, k, default) == Put(d, k, default)

\* d.setdefault(k, default), as the dict it leaves behind
SetDefault(d, k, default) == IF k \in DOMAIN d THEN d ELSE Put(d, k, default)
\* bool(v) of a dict, list or str
Truthy(v) == DOMAIN v # {}

(***************************************************************************)
(* Python str operations.                                                  *)
(***************************************************************************)
\* s.startswith(p, i - 1), with i counted from 1
StartsWithAt(s, i, p) ==
    /\ i >= 1
    /\ i + Len(p) - 1 <= Len(s)
    /\ \A k \in 1..Len(p) : s[i + k - 1] = p[k]

\* p in s
Contains(s, p) == \E i \in 1..Len(s) : StartsWithAt(s, i, p)

\* s.count(p) for a p that cannot overlap itself
Count(s, p) == Cardinality({i \in 1..Len(s) : StartsWithAt(s, i, p)})

\* p.rfind('/') + 1
AfterLastSlash(p) ==
    LET slashes == {k \in 1..Len(p) : p[k] = "/"}
    IN  IF slashes = {} THEN 0 ELSE CHOOSE k \in slashes : \A m \in slashes : m <= k

\* head.rstrip('/')
RECURSIVE RStripSlash(_)
RStripSlash(s) ==
    IF Len(s) > 0 /\ s[Len(s)] = "/" THEN RStripSlash(SubSeq(s, 1, Len(s) - 1)) ELSE s

\* os.path.dirname (posixpath)
Dirname(p) ==
    LET head == SubSeq(p, 1, AfterLastSlash(p))
    IN  IF Len(head) > 0 /\ (\E k \in 1..Len(head) : head[k] # "/")
        THEN RStripSlash(head)
        ELSE head

\* os.path.basename (posixpath)
Basename(p) == SubSeq(p, AfterLastSlash(p) + 1, Len(p))

(***************************************************************************)
(* The reference translator:                                               *)
(*   re.sub(r'{{([^}]+)\.artifacts\.([^}]+)}}',                            *)
(*          r'{{\1.parameters.\2' + suffix + '}}', reference)              *)
(***************************************************************************)
\* every character of s[a..b] is in the class [^}]
NoCloseBrace(s, a, b) == \A k \in a..b : s[k] # "}"

\* The places where '.artifacts.' can start in a match of the pattern that
\* begins at i: '{{' at i, group 1 = s[i+2..j-1] and group 2 after the
\* literal, both non-empty runs of [^}], and '}}' right after group 2.
MatchSplits(s, i) ==
    IF ~StartsWithAt(s, i, open_braces) THEN {}
    ELSE {j \in (i + 3)..Len(s) :
            /\ NoCloseBrace(s, i + 2, j - 1)
            /\ StartsWithAt(s, j, dot_artifacts_dot)
            /\ \E e \in (j + Len(dot_artifacts_dot))..Len(s) :
                  /\ NoCloseBrace(s, j + Len(dot_artifacts_dot), e)
                  /\ StartsWithAt(s, e + 1, close_braces)}

\* A lazy group 1: the earliest split.
LazySplit(s, i) == CHOOSE j \in MatchSplits(s, i) : \A m \in MatchSplits(s, i) : j <= m

\* Group 1 is greedy: the match the engine returns has the latest split.
GreedySplit(s, i) == CHOOSE j \in MatchSplits(s, i) : \A m \in MatchSplits(s, i) : m <= j

\* The last character of group 2, given the split: the run of [^}] up to '}}'.
GroupTwoEnd(s, j) ==
    CHOOSE e \in (j + Len(dot_artifacts_dot))..Len(s) :
        /\ NoCloseBrace(s, j + Len(dot_artifacts_dot), e)
        /\ StartsWithAt(s, e + 1, close_braces)

\* The replacement template, expanded for one match.
Replacement(group1, group2) ==
    open_braces \o group1 \o dot_parameters_dot \o group2
        \o subpath_parameter_name_suffix \o close_braces

\* The leftmost position from i on where the pattern matches, 0 if none.
NextMatch(s, i) ==
    LET starts == {m \in i..Len(s) : MatchSplits(s, m) # {}}
    IN  IF starts = {} THEN 0 ELSE CHOOSE m \in starts : \A n \in starts : m <= n

\* re.sub scanning from position i: the text up to the leftmost match is
\* copied, the match replaced, and the scan goes on from the end of the match.
RECURSIVE ReSubFrom(_, _)
ReSubFrom(s, i) ==
    LET m == NextMatch(s, i)
    IN  IF m = 0 THEN SubSeq(s, i, Len(s))
        ELSE LET j == GreedySplit(s, m)
                 e == GroupTwoEnd(s, j)
             IN  SubSeq(s, i, m - 1)
                     \o Replacement(SubSeq(s, m + 2, j - 1),
                                    SubSeq(s, j + Len(dot_artifacts_dot), e))
                     \o ReSubFrom(s, e + 3)

convert_artifact_reference_to_parameter_reference(ref) == ReSubFrom(ref, 1)

(***************************************************************************)
(* rewrite_data_passing, pass 1: one iteration of the loop over            *)
(* `templates` that rewrites the container templates.                      *)
(***************************************************************************)
\* line 627, negated: the iteration is not skipped
IsContainerBearing(template) == Has(template, "container") \/ Has(template, "script")

\* line 629, template['container'] or template['steps']: the key of the
\* template whose value container_spec is bound to, or the exception.
ContainerSpecKey(template) ==
    IF ~Has(template, "container") THEN [key |-> "", error |-> "KeyError"]
    ELSE IF Truthy(template["container"]) THEN [key |-> "container", error |-> ""]
    ELSE IF Has(template, "steps") THEN [key |-> "steps", error |-> ""]
    ELSE [key |-> "", error |-> "KeyError"]

\* template.get('inputs', {}).get('artifacts', [])
InputArtifacts(template) == Get(Get(template, "inputs", EmptyDict), "artifacts", EmptyList)

\* template.get('outputs', {}).get('artifacts', [])
OutputArtifacts(template) == Get(Get(template, "outputs", EmptyDict), "artifacts", EmptyList)

\* input_artifact['name'] + subpath_parameter_name_suffix
SubpathParameterName(artifact) == artifact["name"] \o subpath_parameter_name_suffix

\* A mount of the artifact's file instead of its directory.
InputMountAtPath(input_artifact) ==
    [mountPath |-> input_artifact["path"],
     name |-> data_volume_name,
     subPath |-> inputs_parameters_open \o SubpathParameterName(input_artifact)
                    \o close_braces,
     readOnly |-> TRUE]

\* lines 640-645: the mount appended for an input artifact
InputMount(input_artifact) ==
    [mountPath |-> Dirname(input_artifact["path"]),
     name |-> data_volume_name,
     subPath |-> inputs_parameters_open \o SubpathParameterName(input_artifact)
                    \o close_braces,
     readOnly |-> TRUE]

\* lines 646-648: the parameter appended for an input artifact
InputParameter(input_artifact) == [name |-> SubpathParameterName(input_artifact)]

\* line 605
ExecutionDataDir(prefix) == prefix \o execution_dir_suffix

\* A subpath that leaves out the artifact's name.
OutputSubpathShared(execution_data_dir, output_artifact) == execution_data_dir

\* line 663
OutputSubpath(execution_data_dir, output_artifact) ==
    execution_data_dir \o output_artifact["name"]

\* lines 664-668: the mount appended for an output artifact
OutputMount(execution_data_dir, output_artifact) ==
    [mountPath |-> Dirname(output_artifact["path"]),
     name |-> data_volume_name,
     subPath |-> OutputSubpath(execution_data_dir, output_artifact)]

\* lines 669-672: the parameter appended for an output artifact
OutputParameter(execution_data_dir, output_artifact) ==
    [name |-> SubpathParameterName(output_artifact),
     value |-> OutputSubpath(execution_data_dir, output_artifact)]

\* lines 631-648 on a template whose container_spec is template[key]
RewriteContainerInputs(template, key) ==
    LET input_artifacts == InputArtifacts(template)
    IN  IF ~Truthy(input_artifacts) THEN template
        ELSE LET t1 == SetDefault(template, "inputs", EmptyDict)
                 t2 == [t1 EXCEPT !["inputs"] = SetDefault(@, "parameters", EmptyList)]
                 t3 == [t2 EXCEPT ![key] = SetDefault(@, "volumeMounts", EmptyList)]
             IN  [t3 EXCEPT
                    ![key]["volumeMounts"] =
                        @ \o [q \in 1..Len(input_artifacts) |-> InputMount(input_artifacts[q])],
                    !["inputs"]["parameters"] =
                        @ \o [q \in 1..Len(input_artifacts) |-> InputParameter(input_artifacts[q])]]

\* lines 652-672 on a template whose container_spec is template[key]
RewriteContainerOutputs(template, key, execution_data_dir) ==
    LET output_artifacts == OutputArtifacts(template)
        Mount(a) == OutputMount(execution_data_dir, a)
        Parameter(a) == OutputParameter(execution_data_dir, a)
    IN  IF ~Truthy(output_artifacts) THEN template
        ELSE LET t1 == SetDefault(template, "outputs", EmptyDict)
                 t2 == [t1 EXCEPT !["outputs"] = SetDefault(@, "parameters", EmptyList)]
                 \* line 655: del template.get('outputs', {})['artifacts']
                 t3 == [t2 EXCEPT !["outputs"] = Del(@, "artifacts")]
                 t4 == [t3 EXCEPT ![key] = SetDefault(@, "volumeMounts", EmptyList)]
             IN  [t4 EXCEPT
                    ![key]["volumeMounts"] =
                        @ \o [q \in 1..Len(output_artifacts) |-> Mount(output_artifacts[q])],
                    !["outputs"]["parameters"] =
                        @ \o [q \in 1..Len(output_artifacts) |-> Parameter(output_artifacts[q])]]

\* A collection that forgets the input artifacts.
ArtifactFileNamesOfOutputs(template) ==
    {Basename(OutputArtifacts(template)[k]["path"]) :
        k \in 1..Len(OutputArtifacts(template))}

\* The basenames lines 637-638 and 660-661 add to all_artifact_file_names.
ArtifactFileNames(template) ==
    {Basename(InputArtifacts(template)[k]["path"]) : k \in 1..Len(InputArtifacts(template))}
        \cup {Basename(OutputArtifacts(template)[k]["path"]) :
                k \in 1..Len(OutputArtifacts(template))}

(***************************************************************************)
(* rewrite_data_passing, pass 2: one iteration of the loop over            *)
(* `templates` that rewrites the DAG and steps templates.  Each stage      *)
(* yields the templates it leaves behind and the exception it raised.      *)
(***************************************************************************)
\* line 677, negated
IsDagOrSteps(template) == Has(template, "dag") \/ Has(template, "steps")

Unbound == EmptyDict

\* container_spec.setdefault('volumeMounts', []) of lines 684 and 696,
\* container_spec being whatever pass 1 last bound it to.
TouchContainerSpec(templates, spec) ==
    IF spec = Unbound THEN [templates |-> templates, error |-> "UnboundLocalError"]
    ELSE [templates |->
            [templates EXCEPT ![spec.template][spec.key] =
                SetDefault(@, "volumeMounts", EmptyList)],
          error |-> ""]

\* A parameter named like the artifact, without the suffix.
DagInputParameterUnsuffixed(input_artifact) == [name |-> input_artifact["name"]]

\* lines 687-689
DagInputParameter(input_artifact) == [name |-> SubpathParameterName(input_artifact)]

\* lines 681-689
RewriteDagInputs(templates, i, spec) ==
    LET input_artifacts == InputArtifacts(templates[i])
    IN  IF ~Truthy(input_artifacts) THEN [templates |-> templates, error |-> ""]
        ELSE LET t1 == SetDefault(templates[i], "inputs", EmptyDict)
                 t2 == [t1 EXCEPT !["inputs"] = SetDefault(@, "parameters", EmptyList)]
                 touched == TouchContainerSpec([templates EXCEPT ![i] = t2], spec)
             IN  IF touched.error # "" THEN touched
                 ELSE [templates |->
                         [touched.templates EXCEPT ![i]["inputs"]["parameters"] =
                             @ \o [q \in 1..Len(input_artifacts) |-> DagInputParameter(input_artifacts[q])]],
                       error |-> ""]

\* An output parameter that passes the artifact reference on untranslated.
DagOutputParameterUntranslated(output_artifact) ==
    [name |-> SubpathParameterName(output_artifact),
     valueFrom |-> [parameter |-> output_artifact["from"]]]

\* lines 700-705
DagOutputParameter(output_artifact) ==
    [name |-> SubpathParameterName(output_artifact),
     valueFrom |->
        [parameter |->
            convert_artifact_reference_to_parameter_reference(output_artifact["from"])]]

\* The first element of a list of artifacts that has no 'from', or 0.
FirstWithoutFrom(artifacts) ==
    LET without == {k \in 1..Len(artifacts) : ~Has(artifacts[k], "from")}
    IN  IF without = {} THEN 0 ELSE CHOOSE k \in without : \A m \in without : k <= m

\* The artifacts a loop handles before the one that stops it.
HandledBefore(artifacts, stop) ==
    IF stop = 0 THEN artifacts ELSE SubSeq(artifacts, 1, stop - 1)

\* lines 693-705; output_artifact['from'] raises KeyError when absent
RewriteDagOutputs(templates, i, spec) ==
    LET output_artifacts == OutputArtifacts(templates[i])
    IN  IF ~Truthy(output_artifacts) THEN [templates |-> templates, error |-> ""]
        ELSE LET t1 == SetDefault(templates[i], "outputs", EmptyDict)
                 t2 == [t1 EXCEPT !["outputs"] = SetDefault(@, "parameters", EmptyList)]
                 touched == TouchContainerSpec([templates EXCEPT ![i] = t2], spec)
                 stop == FirstWithoutFrom(output_artifacts)
             IN  IF touched.error # "" THEN touched
                 ELSE [templates |->
                         [touched.templates EXCEPT ![i]["outputs"]["parameters"] =
                             @ \o LET handled == HandledBefore(output_artifacts, stop)
                                  IN  [q \in 1..Len(handled) |->
                                          DagOutputParameter(handled[q])]],
                       error |-> IF stop = 0 THEN "" ELSE "KeyError"]

\* A parameter argument that passes the artifact reference on untranslated.
ArgumentParameterUntranslated(argument_artifact) ==
    [name |-> SubpathParameterName(argument_artifact),
     value |-> argument_artifact["from"]]

\* lines 717-720
ArgumentParameter(argument_artifact) ==
    [name |-> SubpathParameterName(argument_artifact),
     value |->
        convert_artifact_reference_to_parameter_reference(argument_artifact["from"])]

\* task.get('arguments', {}).get('artifacts', [])
ArgumentArtifacts(task) == Get(Get(task, "arguments", EmptyDict), "artifacts", EmptyList)

\* line 714-715: the task has a constant artifact argument
RaisesOnTask(task) == FirstWithoutFrom(ArgumentArtifacts(task)) # 0

\* lines 710-720 on one task, as far as the loop over its artifacts gets
RewriteTask(task) ==
    LET argument_artifacts == ArgumentArtifacts(task)
    IN  IF ~Truthy(argument_artifacts) THEN task
        ELSE LET t1 == SetDefault(task, "arguments", EmptyDict)
                 t2 == [t1 EXCEPT !["arguments"] = SetDefault(@, "parameters", EmptyList)]
             IN  [t2 EXCEPT !["arguments"]["parameters"] =
                     @ \o LET handled == HandledBefore(argument_artifacts,
                                                       FirstWithoutFrom(argument_artifacts))
                          IN  [q \in 1..Len(handled) |-> ArgumentParameter(handled[q])]]

\* template.get('dag', {}).get('tasks', [])
DagTasks(template) == Get(Get(template, "dag", EmptyDict), "tasks", EmptyList)

\* template.get('steps', [])
StepGroups(template) == Get(template, "steps", EmptyList)

\* [steps for group in template.get('steps', []) for steps in group]
RECURSIVE Flatten(_)
Flatten(groups) == IF groups = <<>> THEN <<>> ELSE Head(groups) \o Flatten(Tail(groups))

\* line 709: the list the loop over tasks runs through
TasksAndSteps(template) == DagTasks(template) \o Flatten(StepGroups(template))

\* The position in TasksAndSteps of step s of group g.
StepPosition(template, g, s) ==
    Len(DagTasks(template)) + Len(Flatten(SubSeq(StepGroups(template), 1, g - 1))) + s

\* The position of the first task the loop raises on, or 0.
FirstRaisingTask(template) ==
    LET raising == {k \in 1..Len(TasksAndSteps(template)) :
                        RaisesOnTask(TasksAndSteps(template)[k])}
    IN  IF raising = {} THEN 0 ELSE CHOOSE k \in raising : \A m \in raising : k <= m

\* What the loop of line 709 leaves of the task at a position: tasks after
\* the raising one are never reached.
TaskAfterLoop(template, position, task) ==
    IF FirstRaisingTask(template) # 0 /\ position > FirstRaisingTask(template)
    THEN task
    ELSE RewriteTask(task)

\* lines 709-720 on template i
RewriteArguments(templates, i) ==
    LET template == templates[i]
        t1 == IF Truthy(DagTasks(template))
              THEN [template EXCEPT !["dag"]["tasks"] =
                        [k \in 1..Len(@) |-> TaskAfterLoop(template, k, @[k])]]
              ELSE template
        t2 == IF Truthy(StepGroups(template))
              THEN [t1 EXCEPT !["steps"] =
                        [g \in 1..Len(@) |->
                            [s \in 1..Len(@[g]) |->
                                TaskAfterLoop(template, StepPosition(template, g, s),
                                              @[g][s])]]]
              ELSE t1
    IN  [templates |-> [templates EXCEPT ![i] = t2],
         error |-> IF FirstRaisingTask(template) = 0 THEN "" ELSE "NotImplementedError"]

\* lines 677-721: the body of the loop for template i
RewriteDagTemplate(templates, i, spec) ==
    IF ~IsDagOrSteps(templates[i]) THEN [templates |-> templates, error |-> ""]
    ELSE LET ins == RewriteDagInputs(templates, i, spec)
         IN  IF ins.error # "" THEN ins
             ELSE LET outs == RewriteDagOutputs(ins.templates, i, spec)
                  IN  IF outs.error # "" THEN outs
                      ELSE RewriteArguments(outs.templates, i)

(***************************************************************************)
(* Objects.  The caller holds its workflow and its volume descriptor;      *)
(* copy.deepcopy and sanitize_for_serialization make new objects.          *)
(***************************************************************************)
\* A list element or dict value that is the object `id` itself, not a copy.
Ref(id) == [object |-> id]
IsRef(v) == DOMAIN v = {"object"}

\* A rewrite that works on the caller's object: workflow = workflow
DeepCopyAliased(h, id, new) == [heap |-> h, ref |-> id]

\* copy.deepcopy(heap[id]): a new object `new` with an equal value
DeepCopy(h, id, new) == [heap |-> Put(h, new, h[id]), ref |-> new]

\* isinstance(volume, dict); a typed client object carries its class
IsDict(v) == ~Has(v, "__class__")

\* The attribute_map of the kubernetes client models: attribute -> JSON key.
AttributeMap(attribute) ==
    CASE attribute = "persistent_volume_claim" -> "persistentVolumeClaim"
      [] attribute = "claim_name" -> "claimName"
      [] attribute = "read_only" -> "readOnly"
      [] OTHER -> attribute

\* The openapi_types of the kubernetes client models: the attributes whose
\* value is itself a model object.
IsModelAttribute(attribute) == attribute = "persistent_volume_claim"

\* ApiClient().sanitize_for_serialization on a model object: a dict keyed by
\* the JSON names of its attributes, model-valued attributes sanitized too.
RECURSIVE sanitize_for_serialization(_)
sanitize_for_serialization(obj) ==
    LET attributes == (DOMAIN obj) \ {"__class__"}
        keys == {AttributeMap(a) : a \in attributes}
        Attribute(key) == CHOOSE a \in attributes : AttributeMap(a) = key
    IN  [key \in keys |->
            IF IsModelAttribute(Attribute(key))
            THEN sanitize_for_serialization(obj[Attribute(key)])
            ELSE obj[Attribute(key)]]

(***************************************************************************)
(* The call transform_workflow(workflow, volume[, path_prefix]).           *)
(***************************************************************************)
\* lines 736-743
transform_workflow ==
    /\ pc = "transform_workflow"
    /\ IF IsDict(heap[args.volume])
       THEN /\ heap' = heap
            /\ volume' = args.volume
       ELSE /\ heap' = Put(heap, "volume_dict", sanitize_for_serialization(heap[args.volume]))
            /\ volume' = "volume_dict"
    /\ workflow' = args.workflow
    /\ path_prefix' = Get(args, "path_prefix", default_path_prefix)
    /\ pc' = "rewrite_data_passing"
    /\ UNCHANGED <<args, snapshot, idx, container_spec, all_artifact_file_names,
                   warnings, error, result>>
    /\ UNCHANGED translatorVars

\* A rewrite that leaves the descriptor's name as it was.
RenameVolumeSkipped(h, id) == h

\* line 608: volume['name'] = data_volume_name
RenameVolume(h, id) == [h EXCEPT ![id] = Put(@, "name", data_volume_name)]

\* line 621: workflow['spec'].setdefault('volumes', []).append(volume)
AppendVolume(h, wf, id) ==
    [h EXCEPT ![wf]["spec"] =
        Put(@, "volumes", Get(@, "volumes", EmptyList) \o <<Ref(id)>>)]

\* workflow['spec']['templates'] of the workflow being rewritten
Templates == heap[workflow]["spec"]["templates"]

\* Where the two loops over `templates` go after iteration idx.
AfterIteration(this, next) ==
    IF idx < Len(Templates) THEN [pc |-> this, idx |-> idx + 1]
    ELSE [pc |-> next, idx |-> 1]

\* lines 598-623
EnterRewrite ==
    /\ pc = "rewrite_data_passing"
    /\ LET copy == DeepCopy(heap, workflow, "workflow_copy")
       IN  /\ workflow' = copy.ref
           /\ heap' = AppendVolume(RenameVolume(copy.heap, volume), copy.ref, volume)
           /\ pc' = IF Len(copy.heap[copy.ref]["spec"]["templates"]) = 0
                    THEN "checks" ELSE "pass1"
    /\ idx' = 1
    /\ container_spec' = Unbound
    /\ all_artifact_file_names' = {}
    /\ UNCHANGED <<args, snapshot, volume, path_prefix, warnings, error, result>>
    /\ UNCHANGED translatorVars

Raise(exception) ==
    /\ pc' = "raised"
    /\ error' = exception

\* lines 626-673: one iteration of the first loop
RewriteContainerTemplate ==
    /\ pc = "pass1"
    /\ LET template == Templates[idx]
           bound == ContainerSpecKey(template)
           after == AfterIteration("pass1", "pass2")
       IN  IF ~IsContainerBearing(template)
           THEN /\ pc' = after.pc
                /\ idx' = after.idx
                /\ UNCHANGED <<heap, container_spec, all_artifact_file_names, error>>
           ELSE IF bound.error # ""
           THEN /\ Raise(bound.error)
                /\ UNCHANGED <<heap, idx, container_spec, all_artifact_file_names>>
           ELSE IF bound.key # "container"
                   /\ (Truthy(InputArtifacts(template)) \/ Truthy(OutputArtifacts(template)))
           THEN \* container_spec is the list template['steps']: it has no setdefault
                /\ Raise("AttributeError")
                /\ container_spec' = [template |-> idx, key |-> bound.key]
                /\ UNCHANGED <<heap, idx, all_artifact_file_names>>
           ELSE /\ container_spec' = [template |-> idx, key |-> bound.key]
                /\ heap' = [heap EXCEPT ![workflow]["spec"]["templates"][idx] =
                              RewriteContainerOutputs(
                                  RewriteContainerInputs(template, bound.key),
                                  bound.key, ExecutionDataDir(path_prefix))]
                /\ all_artifact_file_names' =
                       all_artifact_file_names \cup ArtifactFileNames(template)
                /\ pc' = after.pc
                /\ idx' = after.idx
                /\ UNCHANGED error
    /\ UNCHANGED <<args, snapshot, workflow, volume, path_prefix, warnings, result>>
    /\ UNCHANGED translatorVars

\* lines 676-721: one iteration of the second loop
RewriteDagOrStepsTemplate ==
    /\ pc = "pass2"
    /\ LET rewritten == RewriteDagTemplate(Templates, idx, container_spec)
           after == AfterIteration("pass2", "checks")
       IN  /\ heap' = [heap EXCEPT ![workflow]["spec"]["templates"] = rewritten.templates]
           /\ IF rewritten.error # ""
              THEN /\ Raise(rewritten.error)
                   /\ UNCHANGED idx
              ELSE /\ pc' = after.pc
                   /\ idx' = after.idx
                   /\ UNCHANGED error
    /\ UNCHANGED <<args, snapshot, workflow, volume, path_prefix, container_spec,
                   all_artifact_file_names, warnings, result>>
    /\ UNCHANGED translatorVars

\* workflow['spec'].get('arguments', {}).get('artifacts', [])
WorkflowArgumentArtifacts(wf) ==
    Get(Get(wf["spec"], "arguments", EmptyDict), "artifacts", EmptyList)

\* lines 725-734
FinalChecks ==
    /\ pc = "checks"
    /\ warnings' = IF Cardinality(all_artifact_file_names) > 1
                   THEN warnings + 1 ELSE warnings
    /\ IF Truthy(WorkflowArgumentArtifacts(heap[workflow]))
       THEN /\ Raise("NotImplementedError")
            /\ UNCHANGED result
       ELSE /\ pc' = "returned"
            /\ result' = workflow
            /\ UNCHANGED error
    /\ UNCHANGED <<heap, args, snapshot, workflow, volume, path_prefix, idx,
                   container_spec, all_artifact_file_names>>
    /\ UNCHANGED translatorVars

(***************************************************************************)
(* Inputs of the reference translator: strings made of at most MaxTokens   *)
(* tokens.  A token is an artifact reference {{prefix.artifacts.name}}, a  *)
(* parameter reference {{prefix.parameters.name}}, plain text, or an       *)
(* ill-formed token.                                                       *)
(***************************************************************************)
prefix_inputs == <<"i", "n", "p", "u", "t", "s">>
prefix_steps == <<"s", "t", "e", "p", "s", ".", "s", ".", "o", "u", "t", "p", "u", "t", "s">>
prefix_tasks == <<"t", "a", "s", "k", "s", ".", "t", ".", "o", "u", "t", "p", "u", "t", "s">>
prefix_workflow == <<"w", "o", "r", "k", "f", "l", "o", "w">>
\* the outputs of a task whose id is `artifacts`
prefix_tasks_artifacts == <<"t", "a", "s", "k", "s", ".", "a", "r", "t", "i", "f", "a", "c", "t", "s", ".", "o", "u", "t", "p", "u", "t", "s">>
name_n == <<"n">>
name_artifacts == <<"a", "r", "t", "i", "f", "a", "c", "t", "s">>
text_and == <<" ", "a", "n", "d", " ">>
text_path == <<"/", "t", "m", "p", "/", "x">>

ArtifactReference(prefix, name) ==
    [kind |-> "artifact", prefix |-> prefix, name |-> name,
     text |-> open_braces \o prefix \o dot_artifacts_dot \o name \o close_braces]

ParameterReference(prefix, name) ==
    [kind |-> "parameter", prefix |-> prefix, name |-> name,
     text |-> open_braces \o prefix \o dot_parameters_dot \o name \o close_braces]

PlainText(text) == [kind |-> "text", prefix |-> <<>>, name |-> <<>>, text |-> text]

IllFormed(text) == [kind |-> "illformed", prefix |-> <<>>, name |-> <<>>, text |-> text]

ArtifactReferenceTokens ==
    {ArtifactReference(p, name_n) :
        p \in {prefix_inputs, prefix_steps, prefix_tasks, prefix_workflow,
               prefix_tasks_artifacts}}
    \cup {ArtifactReference(prefix_inputs, name_artifacts)}

ParameterReferenceTokens ==
    {ParameterReference(prefix_inputs, name_n),
     ParameterReference(prefix_tasks, name_n \o subpath_parameter_name_suffix),
     ParameterReference(prefix_tasks_artifacts, name_n)}

PlainTextTokens == {PlainText(text_and), PlainText(text_path)}

IllFormedTokens ==
    {\* unclosed: {{inputs.artifacts.n}
     IllFormed(open_braces \o prefix_inputs \o dot_artifacts_dot \o name_n \o <<"}">>),
     \* single opening brace: {inputs.artifacts.n}}
     IllFormed(<<"{">> \o prefix_inputs \o dot_artifacts_dot \o name_n \o close_braces),
     \* no prefix: {{.artifacts.n}}
     IllFormed(open_braces \o dot_artifacts_dot \o name_n \o close_braces),
     \* no name: {{inputs.artifacts.}}
     IllFormed(open_braces \o prefix_inputs \o dot_artifacts_dot \o close_braces)}

Tokens ==
    ArtifactReferenceTokens \cup ParameterReferenceTokens
        \cup PlainTextTokens \cup IllFormedTokens

TokenLists == UNION {[1..n -> Tokens] : n \in 0..MaxTokens}

\* The string a token list spells.
RECURSIVE Spell(_)
Spell(ts) == IF ts = <<>> THEN <<>> ELSE Head(ts).text \o Spell(Tail(ts))

(***************************************************************************)
(* The translator on its own: SpecTranslator applies it to a string and    *)
(* then to its own result.                                                 *)
(***************************************************************************)
IdleRewrite ==
    /\ heap = EmptyDict
    /\ args = EmptyDict
    /\ snapshot = EmptyDict
    /\ workflow = ""
    /\ volume = ""
    /\ path_prefix = <<>>
    /\ idx = 0
    /\ container_spec = EmptyDict
    /\ all_artifact_file_names = {}
    /\ warnings = 0
    /\ error = ""
    /\ result = ""

InitTranslator ==
    /\ pc = "translator_called"
    /\ tokens \in TokenLists
    /\ reference = Spell(tokens)
    /\ translated = <<>>
    /\ retranslated = <<>>
    /\ IdleRewrite

Translate ==
    /\ pc = "translator_called"
    /\ translated' = convert_artifact_reference_to_parameter_reference(reference)
    /\ pc' = "translated"
    /\ UNCHANGED <<tokens, reference, retranslated>>
    /\ UNCHANGED rewriteVars

TranslateAgain ==
    /\ pc = "translated"
    /\ retranslated' = convert_artifact_reference_to_parameter_reference(translated)
    /\ pc' = "retranslated"
    /\ UNCHANGED <<tokens, reference, translated>>
    /\ UNCHANGED rewriteVars

NextTranslator == Translate \/ TranslateAgain

SpecTranslator == InitTranslator /\ [][NextTranslator]_vars

(***************************************************************************)
(* Input workflows.  Template shapes, one of each name; a workflow holds   *)
(* at most MaxTemplates of them, and every template its tasks name.        *)
(***************************************************************************)
str_data == <<"d", "a", "t", "a">>
str_x == <<"x">>
str_y == <<"y">>
str_out == <<"o", "u", "t">>
str_msg == <<"m", "s", "g">>
str_v == <<"v">>
str_image == <<"b", "u", "s", "y", "b", "o", "x">>
str_producer == <<"p", "r", "o", "d", "u", "c", "e", "r">>
str_consumer == <<"c", "o", "n", "s", "u", "m", "e", "r">>
str_both == <<"b", "o", "t", "h">>
str_plain == <<"p", "l", "a", "i", "n">>
str_main == <<"m", "a", "i", "n">>
str_inner == <<"i", "n", "n", "e", "r">>
str_seq == <<"s", "e", "q">>
str_loop == <<"l", "o", "o", "p">>
str_bad == <<"b", "a", "d">>
str_badseq == <<"b", "a", "d", "s", "e", "q">>
str_again == <<"a", "g", "a", "i", "n">>
str_first == <<"f", "i", "r", "s", "t">>
str_second == <<"s", "e", "c", "o", "n", "d">>
path_out_data == <<"/", "o", "u", "t", "/", "d", "a", "t", "a">>
path_in_data == <<"/", "i", "n", "/", "d", "a", "t", "a">>
path_nested == <<"/", "a", "/", "b", "/", "x", ".", "t", "x", "t">>
path_bare == <<"y">>
path_root == <<"/", "y">>
path_scratch == <<"/", "s", "c", "r", "a", "t", "c", "h">>
str_scratch == <<"s", "c", "r", "a", "t", "c", "h">>
str_vol == <<"v", "o", "l">>
str_pvc == <<"p", "v", "c">>
str_tmp == <<"t", "m", "p", "/">>
str_wf == <<"w", "f">>
class_V1Volume == <<"V", "1", "V", "o", "l", "u", "m", "e">>
class_V1PVC == <<"V", "1", "P", "e", "r", "s", "i", "s", "t", "e", "n", "t", "V", "o", "l", "u", "m", "e", "C", "l", "a", "i", "m", "V", "o", "l", "u", "m", "e", "S", "o", "u", "r", "c", "e">>
scope_tasks_producer == <<"t", "a", "s", "k", "s", ".", "p", "r", "o", "d", "u", "c", "e", "r", ".", "o", "u", "t", "p", "u", "t", "s">>
scope_steps_producer == <<"s", "t", "e", "p", "s", ".", "p", "r", "o", "d", "u", "c", "e", "r", ".", "o", "u", "t", "p", "u", "t", "s">>
scope_inputs == <<"i", "n", "p", "u", "t", "s">>

\* '{{<scope>.artifacts.<name>}}'
ArtifactRef(scope, name) == open_braces \o scope \o dot_artifacts_dot \o name \o close_braces
\* '{{<scope>.parameters.<name>}}'
ParameterRef(scope, name) == open_braces \o scope \o dot_parameters_dot \o name \o close_braces

Container == [image |-> str_image]
RawArtifact(name) == [name |-> name, raw |-> [data |-> str_v]]
FromArtifact(name, from) == [name |-> name, from |-> from]

\* container, one output artifact data at /out/data
ProducerTemplate ==
    [name |-> str_producer, container |-> Container,
     outputs |-> [artifacts |-> <<[name |-> str_data, path |-> path_out_data]>>]]

\* container, one input artifact data at /in/data
ConsumerTemplate ==
    [name |-> str_consumer, container |-> Container,
     inputs |-> [artifacts |-> <<[name |-> str_data, path |-> path_in_data]>>]]

\* container with a mount and parameters of its own (one already named
\* x-subpath), two input artifacts and one output artifact, no two files alike
BothTemplate ==
    [name |-> str_both,
     container |-> [image |-> str_image,
                    volumeMounts |-> <<[name |-> str_scratch, mountPath |-> path_scratch]>>],
     inputs |-> [parameters |-> <<[name |-> str_x \o subpath_parameter_name_suffix,
                                   value |-> str_v]>>,
                 artifacts |-> <<[name |-> str_x, path |-> path_nested],
                                 [name |-> str_y, path |-> path_bare]>>],
     outputs |-> [parameters |-> <<[name |-> str_msg, value |-> str_v]>>,
                  artifacts |-> <<[name |-> str_y, path |-> path_root]>>]]

\* container without artifacts
PlainTemplate == [name |-> str_plain, container |-> Container]

\* the DAG of producer and consumer
MainTemplate ==
    [name |-> str_main,
     dag |-> [tasks |-> <<
        [name |-> str_producer, template |-> str_producer],
        [name |-> str_consumer, template |-> str_consumer,
         dependencies |-> <<str_producer>>,
         arguments |-> [artifacts |-> <<
            FromArtifact(str_data, ArtifactRef(scope_tasks_producer, str_data))>>]]>>]]

\* a DAG with an input and an output artifact of its own
InnerTemplate ==
    [name |-> str_inner,
     inputs |-> [artifacts |-> <<[name |-> str_data]>>],
     outputs |-> [artifacts |-> <<
        FromArtifact(str_out, ArtifactRef(scope_tasks_producer, str_data))>>],
     dag |-> [tasks |-> <<
        [name |-> str_producer, template |-> str_producer],
        [name |-> str_consumer, template |-> str_consumer,
         dependencies |-> <<str_producer>>,
         arguments |-> [parameters |-> <<[name |-> str_msg, value |-> str_v]>>,
                        artifacts |-> <<
            FromArtifact(str_data, ArtifactRef(scope_inputs, str_data))>>]]>>]]

\* steps: producer, then consumer; an output artifact of its own
SeqTemplate ==
    [name |-> str_seq,
     outputs |-> [artifacts |-> <<
        FromArtifact(str_out, ArtifactRef(scope_steps_producer, str_data))>>],
     steps |-> <<
        <<[name |-> str_producer, template |-> str_producer]>>,
        <<[name |-> str_consumer, template |-> str_consumer,
           arguments |-> [artifacts |-> <<
              FromArtifact(str_data, ArtifactRef(scope_steps_producer, str_data))>>]]>> >>]

\* a DAG with an input artifact that calls itself
LoopTemplate ==
    [name |-> str_loop,
     inputs |-> [artifacts |-> <<[name |-> str_data]>>],
     dag |-> [tasks |-> <<
        [name |-> str_again, template |-> str_loop,
         arguments |-> [artifacts |-> <<
            FromArtifact(str_data, ArtifactRef(scope_inputs, str_data))>>]]>>]]

\* a DAG with an input artifact whose second task passes a constant artifact
BadTemplate ==
    [name |-> str_bad,
     inputs |-> [artifacts |-> <<[name |-> str_data]>>],
     dag |-> [tasks |-> <<
        [name |-> str_first, template |-> str_bad,
         arguments |-> [artifacts |-> <<
            FromArtifact(str_data, ArtifactRef(scope_inputs, str_data))>>]],
        [name |-> str_second, template |-> str_bad,
         arguments |-> [artifacts |-> <<RawArtifact(str_data)>>]]>>]]

\* steps, no artifacts of its own, whose step passes a constant artifact
BadSeqTemplate ==
    [name |-> str_badseq,
     steps |-> <<
        <<[name |-> str_again, template |-> str_badseq,
           arguments |-> [artifacts |-> <<RawArtifact(str_data)>>]]>> >>]

TemplateShapes ==
    <<MainTemplate, ProducerTemplate, ConsumerTemplate, InnerTemplate, BothTemplate,
      SeqTemplate, PlainTemplate, LoopTemplate, BadTemplate, BadSeqTemplate>>

\* The elements of a list at the positions of a set, in the list's order.
RECURSIVE Pick(_, _)
Pick(list, positions) ==
    IF positions = {} THEN <<>>
    ELSE LET first == CHOOSE k \in positions : \A m \in positions : k <= m
         IN  <<list[first]>> \o Pick(list, positions \ {first})

\* Every template a task or step names is in the workflow.
Closed(templates) ==
    \A i \in 1..Len(templates) :
        \A k \in 1..Len(TasksAndSteps(templates[i])) :
            \E j \in 1..Len(templates) :
                templates[j]["name"] = TasksAndSteps(templates[i])[k]["template"]

TemplateLists ==
    {ts \in {Pick(TemplateShapes, positions) :
                positions \in {ps \in SUBSET (1..Len(TemplateShapes)) :
                                  Cardinality(ps) <= MaxTemplates}} :
        Closed(ts)}

\* spec.arguments: absent, without artifacts, with an empty list, with one
WorkflowArguments ==
    {EmptyDict,
     [arguments |-> [artifacts |-> <<>>]],
     [arguments |-> [artifacts |-> <<RawArtifact(str_data)>>]]}

\* spec.volumes: absent, or one volume of the workflow's own
WorkflowVolumes ==
    {EmptyDict,
     [volumes |-> <<[name |-> str_scratch, emptyDir |-> EmptyDict]>>]}

\* The volume descriptor: a dict, a dict already named data-storage, or a
\* V1Volume object of the kubernetes client.
VolumeDescriptors ==
    {[name |-> str_vol, persistentVolumeClaim |-> [claimName |-> str_pvc]],
     [name |-> data_volume_name, persistentVolumeClaim |-> [claimName |-> str_pvc]],
     [__class__ |-> class_V1Volume, name |-> str_vol,
      persistent_volume_claim |-> [__class__ |-> class_V1PVC, claim_name |-> str_pvc]]}

\* path_prefix: left to its default, or given
PathPrefixArguments == {EmptyDict, [path_prefix |-> str_tmp]}

\* d1 | d2 for dicts without a common key
Merge(d1, d2) ==
    [k \in (DOMAIN d1) \cup (DOMAIN d2) |-> IF k \in DOMAIN d1 THEN d1[k] ELSE d2[k]]

InputWorkflow(templates, arguments, volumes) ==
    [metadata |-> [name |-> str_wf],
     spec |-> Merge(Merge([templates |-> templates], arguments), volumes)]

IdleTranslator ==
    /\ tokens = <<>>
    /\ reference = <<>>
    /\ translated = <<>>
    /\ retranslated = <<>>

Init ==
    /\ pc = "transform_workflow"
    /\ \E templates \in TemplateLists, arguments \in WorkflowArguments,
          volumes \in WorkflowVolumes, descriptor \in VolumeDescriptors,
          prefix \in PathPrefixArguments :
          /\ heap = [caller_workflow |-> InputWorkflow(templates, arguments, volumes),
                     caller_volume |-> descriptor]
          /\ snapshot = [workflow |-> InputWorkflow(templates, arguments, volumes),
                         volume |-> descriptor]
          /\ args = Merge([workflow |-> "caller_workflow", volume |-> "caller_volume"],
                          prefix)
    /\ workflow = ""
    /\ volume = ""
    /\ path_prefix = <<>>
    /\ idx = 0
    /\ container_spec = Unbound
    /\ all_artifact_file_names = {}
    /\ warnings = 0
    /\ error = ""
    /\ result = ""
    /\ IdleTranslator

Next ==
    \/ transform_workflow
    \/ EnterRewrite
    \/ RewriteContainerTemplate
    \/ RewriteDagOrStepsTemplate
    \/ FinalChecks

Spec == Init /\ [][Next]_vars

(***************************************************************************)
(* What the caller sees of a call.                                         *)
(***************************************************************************)
Returned == pc = "returned"
Raised == pc = "raised"
CallOver == Returned \/ Raised

\* The templates the caller passed, and what the rewrite made of them.
GivenTemplates == snapshot.workflow["spec"]["templates"]
RewrittenTemplates == heap[result]["spec"]["templates"]

\* The caller's objects as they are now.
CallerWorkflow == heap[args.workflow]
CallerVolume == heap[args.volume]

\* Some task or step of the workflow passes an artifact without a `from`.
HasConstantArgument(templates) ==
    \E i \in 1..Len(templates) :
        /\ IsDagOrSteps(templates[i])
        /\ \E k \in 1..Len(TasksAndSteps(templates[i])) :
              RaisesOnTask(TasksAndSteps(templates[i])[k])

(***************************************************************************)
(* C1.  The caller's workflow is never mutated: once the call is over,     *)
(* whether it returned or raised, the workflow the caller passed equals    *)
(* the snapshot taken before the call.                                     *)
(***************************************************************************)
C1_WorkflowNotMutated == CallOver => CallerWorkflow = snapshot.workflow

\* The call raised on a constant artifact argument after the rewrite had
\* already changed templates of its own copy.
C1_Witness ==
    /\ Raised
    /\ error = "NotImplementedError"
    /\ HasConstantArgument(GivenTemplates)
    /\ heap[workflow]["spec"]["templates"] # GivenTemplates
    /\ CallerWorkflow = snapshot.workflow

(***************************************************************************)
(* C2.  The call owns a copy of the volume descriptor too: once the call   *)
(* is over the caller's descriptor equals its pre-call snapshot, and the   *)
(* volume entry of the returned workflow is not the caller's object.       *)
(***************************************************************************)
C2_VolumeDescriptorOwned ==
    CallOver =>
        /\ CallerVolume = snapshot.volume
        /\ Returned =>
              \A k \in 1..Len(heap[result]["spec"]["volumes"]) :
                  heap[result]["spec"]["volumes"][k] # Ref(args.volume)

(***************************************************************************)
(* C3.  A task or step with a constant artifact argument makes the call    *)
(* fail with NotImplementedError and return nothing.                       *)
(***************************************************************************)
C3_ConstantArgumentUnsupported ==
    (CallOver /\ HasConstantArgument(GivenTemplates)) =>
        /\ Raised
        /\ error = "NotImplementedError"
        /\ result = ""

(***************************************************************************)
(* C4.  A non-empty spec.arguments.artifacts makes the call fail with      *)
(* NotImplementedError and return nothing, whatever the templates hold;    *)
(* an absent or empty list passes the final check.                         *)
(***************************************************************************)
C4_WorkflowArgumentsUnsupported ==
    [][/\ (pc' = "raised" /\ Truthy(WorkflowArgumentArtifacts(snapshot.workflow)))
            => (error' = "NotImplementedError" /\ result' = "")
       /\ pc' = "returned" => ~Truthy(WorkflowArgumentArtifacts(snapshot.workflow))
       /\ (pc = "checks" /\ ~Truthy(WorkflowArgumentArtifacts(snapshot.workflow)))
            => pc' = "returned"]_vars

(***************************************************************************)
(* Reading a rewritten template.                                           *)
(***************************************************************************)
InputParameters(template) == Get(Get(template, "inputs", EmptyDict), "parameters", EmptyList)
OutputParameters(template) == Get(Get(template, "outputs", EmptyDict), "parameters", EmptyList)
VolumeMounts(template) == Get(template["container"], "volumeMounts", EmptyList)
ArgumentParameters(task) == Get(Get(task, "arguments", EmptyDict), "parameters", EmptyList)

\* Some element of the list has this name.
HasNamed(list, name) == \E k \in 1..Len(list) : list[k]["name"] = name

\* The element is in `now` at a position `before` did not have.
Appended(before, now, element) ==
    \E k \in (Len(before) + 1)..Len(now) : now[k] = element

IsContainerTemplate(template) == Has(template, "container")

Suffixed(name) == name \o subpath_parameter_name_suffix

(***************************************************************************)
(* C5.  Parameter completeness: after a successful rewrite every container, *)
(* DAG and steps template has, for every artifact name n of its input      *)
(* artifacts, an input parameter n-subpath, and for every artifact name n  *)
(* of its output artifacts, an output parameter n-subpath.                 *)
(***************************************************************************)
C5_ParameterCompleteness ==
    Returned =>
        \A i \in 1..Len(GivenTemplates) :
            (IsContainerTemplate(GivenTemplates[i]) \/ IsDagOrSteps(GivenTemplates[i])) =>
                /\ \A k \in 1..Len(InputArtifacts(GivenTemplates[i])) :
                      HasNamed(InputParameters(RewrittenTemplates[i]),
                               Suffixed(InputArtifacts(GivenTemplates[i])[k]["name"]))
                /\ \A k \in 1..Len(OutputArtifacts(GivenTemplates[i])) :
                      HasNamed(OutputParameters(RewrittenTemplates[i]),
                               Suffixed(OutputArtifacts(GivenTemplates[i])[k]["name"]))

\* A rewrite returned a workflow whose container templates declare input
\* and output artifacts and whose DAG or steps template declares both.
C5_Witness ==
    /\ Returned
    /\ \E i \in 1..Len(GivenTemplates) :
          /\ IsContainerTemplate(GivenTemplates[i])
          /\ Truthy(InputArtifacts(GivenTemplates[i]))
    /\ \E i \in 1..Len(GivenTemplates) :
          /\ IsContainerTemplate(GivenTemplates[i])
          /\ Truthy(OutputArtifacts(GivenTemplates[i]))
    /\ \E i \in 1..Len(GivenTemplates) :
          /\ IsDagOrSteps(GivenTemplates[i])
          /\ Truthy(InputArtifacts(GivenTemplates[i]))
          /\ Truthy(OutputArtifacts(GivenTemplates[i]))
          /\ HasNamed(InputParameters(RewrittenTemplates[i]), Suffixed(str_data))
          /\ HasNamed(OutputParameters(RewrittenTemplates[i]), Suffixed(str_out))

(***************************************************************************)
(* C6.  Input mount correctness: after a successful rewrite, for every     *)
(* container template and every input artifact a at path p, the container  *)
(* has gained a mount of data-storage at dirname(p), read-only, with       *)
(* subPath {{inputs.parameters.<a>-subpath}}, and the template has gained  *)
(* an input parameter <a>-subpath that carries nothing but its name.       *)
(***************************************************************************)
C6_InputMounts ==
    Returned =>
        \A i \in 1..Len(GivenTemplates) :
            IsContainerTemplate(GivenTemplates[i]) =>
                \A k \in 1..Len(InputArtifacts(GivenTemplates[i])) :
                    LET a == InputArtifacts(GivenTemplates[i])[k]
                    IN  /\ Appended(VolumeMounts(GivenTemplates[i]),
                                    VolumeMounts(RewrittenTemplates[i]),
                                    [mountPath |-> Dirname(a["path"]),
                                     name |-> data_volume_name,
                                     subPath |-> inputs_parameters_open \o a["name"]
                                                    \o subpath_parameter_name_suffix
                                                    \o close_braces,
                                     readOnly |-> TRUE])
                        /\ Appended(InputParameters(GivenTemplates[i]),
                                    InputParameters(RewrittenTemplates[i]),
                                    [name |-> Suffixed(a["name"])])

\* A rewrite returned a workflow with a container template whose input
\* artifact lies in a nested directory, mounted there.
C6_Witness ==
    /\ Returned
    /\ \E i \in 1..Len(GivenTemplates) :
          /\ IsContainerTemplate(GivenTemplates[i])
          /\ \E k \in 1..Len(InputArtifacts(GivenTemplates[i])) :
                /\ InputArtifacts(GivenTemplates[i])[k]["path"] = path_nested
                /\ \E m \in 1..Len(VolumeMounts(RewrittenTemplates[i])) :
                      /\ VolumeMounts(RewrittenTemplates[i])[m]["mountPath"] = <<"/", "a", "/", "b">>
                      /\ Has(VolumeMounts(RewrittenTemplates[i])[m], "readOnly")

(***************************************************************************)
(* C7.  Output mount correctness: after a successful rewrite, for every    *)
(* container template and every output artifact a at path p, the container *)
(* has gained a mount of data-storage at dirname(p) with no readOnly flag  *)
(* and subPath path_prefix + '{{workflow.uid}}_{{pod.name}}/' + a.name     *)
(* (path_prefix 'artifact_data/' unless given), and the template has       *)
(* gained an output parameter <a>-subpath whose value is that subPath.     *)
(***************************************************************************)
GivenPathPrefix == Get(args, "path_prefix", default_path_prefix)

C7_OutputMounts ==
    Returned =>
        \A i \in 1..Len(GivenTemplates) :
            IsContainerTemplate(GivenTemplates[i]) =>
                \A k \in 1..Len(OutputArtifacts(GivenTemplates[i])) :
                    LET a == OutputArtifacts(GivenTemplates[i])[k]
                        subPath == GivenPathPrefix \o execution_dir_suffix \o a["name"]
                    IN  /\ Appended(VolumeMounts(GivenTemplates[i]),
                                    VolumeMounts(RewrittenTemplates[i]),
                                    [mountPath |-> Dirname(a["path"]),
                                     name |-> data_volume_name,
                                     subPath |-> subPath])
                        /\ Appended(OutputParameters(GivenTemplates[i]),
                                    OutputParameters(RewrittenTemplates[i]),
                                    [name |-> Suffixed(a["name"]), value |-> subPath])

\* A rewrite called with a path_prefix of its own returned a workflow with
\* a container template that declares an output artifact.
C7_Witness ==
    /\ Returned
    /\ Has(args, "path_prefix")
    /\ \E i \in 1..Len(GivenTemplates) :
          /\ IsContainerTemplate(GivenTemplates[i])
          /\ Truthy(OutputArtifacts(GivenTemplates[i]))
          /\ Len(VolumeMounts(RewrittenTemplates[i])) > Len(VolumeMounts(GivenTemplates[i]))

(***************************************************************************)
(* C8.  End-to-end wiring: after a successful rewrite, a DAG task whose    *)
(* artifact argument a comes from {{tasks.P.outputs.artifacts.n}}, P a     *)
(* sibling task whose container template declares output artifact n, has   *)
(* gained the parameter argument a-subpath with value                      *)
(* {{tasks.P.outputs.parameters.n-subpath}}; the template of P has the     *)
(* output parameter n-subpath; and a consuming container template that     *)
(* declares input artifact a has the input parameter a-subpath and a       *)
(* read-only mount whose subPath is {{inputs.parameters.a-subpath}}.       *)
(***************************************************************************)
str_tasks_dot == <<"t", "a", "s", "k", "s", ".">>
str_dot_outputs == <<".", "o", "u", "t", "p", "u", "t", "s">>
TaskOutputs(task_name) == str_tasks_dot \o task_name \o str_dot_outputs

\* Argument a of task c of DAG template i comes from output artifact n of
\* the container template j that sibling task p runs.
IsWired(i, c, a, p, j, n) ==
    LET tasks == DagTasks(GivenTemplates[i])
        argument == ArgumentArtifacts(tasks[c])[a]
    IN  /\ IsContainerTemplate(GivenTemplates[j])
        /\ GivenTemplates[j]["name"] = tasks[p]["template"]
        /\ Has(argument, "from")
        /\ argument["from"] =
              ArtifactRef(TaskOutputs(tasks[p]["name"]),
                          OutputArtifacts(GivenTemplates[j])[n]["name"])

\* Container template m is the one task c of DAG template i runs, and it
\* declares the input artifact that argument a of the task names.
IsConsumer(i, c, a, m) ==
    LET task == DagTasks(GivenTemplates[i])[c]
    IN  /\ IsContainerTemplate(GivenTemplates[m])
        /\ GivenTemplates[m]["name"] = task["template"]
        /\ HasNamed(InputArtifacts(GivenTemplates[m]), ArgumentArtifacts(task)[a]["name"])

\* What the claim promises of one wiring.
IsRewired(i, c, a, p, j, n) ==
    LET given == DagTasks(GivenTemplates[i])
        task == DagTasks(RewrittenTemplates[i])[c]
        argument_name == ArgumentArtifacts(given[c])[a]["name"]
        output_name == OutputArtifacts(GivenTemplates[j])[n]["name"]
    IN  /\ \E k \in 1..Len(ArgumentParameters(task)) :
              ArgumentParameters(task)[k] =
                  [name |-> Suffixed(argument_name),
                   value |-> ParameterRef(TaskOutputs(given[p]["name"]),
                                          Suffixed(output_name))]
        /\ HasNamed(OutputParameters(RewrittenTemplates[j]), Suffixed(output_name))
        /\ \A m \in 1..Len(GivenTemplates) :
              IsConsumer(i, c, a, m) =>
                  /\ HasNamed(InputParameters(RewrittenTemplates[m]),
                              Suffixed(argument_name))
                  /\ \E k \in 1..Len(VolumeMounts(RewrittenTemplates[m])) :
                        LET mount == VolumeMounts(RewrittenTemplates[m])[k]
                        IN  /\ Has(mount, "readOnly")
                            /\ mount["readOnly"]
                            /\ mount["subPath"] =
                                  ParameterRef(scope_inputs, Suffixed(argument_name))

C8_EndToEndWiring ==
    Returned =>
        \A i \in 1..Len(GivenTemplates) :
            \A c \in 1..Len(DagTasks(GivenTemplates[i])) :
                \A p \in 1..Len(DagTasks(GivenTemplates[i])) :
                    \A a \in 1..Len(ArgumentArtifacts(DagTasks(GivenTemplates[i])[c])) :
                        \A j \in 1..Len(GivenTemplates) :
                            \A n \in 1..Len(OutputArtifacts(GivenTemplates[j])) :
                                IsWired(i, c, a, p, j, n) => IsRewired(i, c, a, p, j, n)

\* A rewrite returned a workflow in which a DAG wires a producer's output
\* artifact to the input artifact of a consumer that is in the workflow.
C8_Witness ==
    /\ Returned
    /\ \E i \in 1..Len(GivenTemplates) :
          \E c \in 1..Len(DagTasks(GivenTemplates[i])) :
              \E p \in 1..Len(DagTasks(GivenTemplates[i])) :
                  \E a \in 1..Len(ArgumentArtifacts(DagTasks(GivenTemplates[i])[c])) :
                      \E j \in 1..Len(GivenTemplates) :
                          \E n \in 1..Len(OutputArtifacts(GivenTemplates[j])) :
                              /\ IsWired(i, c, a, p, j, n)
                              /\ \E m \in 1..Len(GivenTemplates) : IsConsumer(i, c, a, m)

(***************************************************************************)
(* Reading the translator's argument: what each token should become.       *)
(***************************************************************************)
\* '{{<prefix>.parameters.<name>-subpath}}' for an artifact reference, the
\* token itself for anything else
ExpectedToken(token) ==
    IF token.kind = "artifact"
    THEN [token EXCEPT !.text = ParameterRef(token.prefix, Suffixed(token.name))]
    ELSE token

ExpectedTokens(ts) == [k \in 1..Len(ts) |-> ExpectedToken(ts[k])]

\* '.artifacts.' segments that the prefixes of the artifact references bring
RECURSIVE SegmentsInPrefixes(_)
SegmentsInPrefixes(ts) ==
    IF ts = <<>> THEN 0
    ELSE (IF Head(ts).kind = "artifact" THEN Count(Head(ts).prefix, dot_artifacts_dot) ELSE 0)
            + SegmentsInPrefixes(Tail(ts))

WasTranslated == pc \in {"translated", "retranslated"}

\* The argument is made of artifact references, with plain text between.
HoldsReferences ==
    /\ \A k \in 1..Len(tokens) : tokens[k].kind \in {"artifact", "text"}
    /\ \E k \in 1..Len(tokens) : tokens[k].kind = "artifact"

(***************************************************************************)
(* C9.  Reference translation, as claimed: every well-formed artifact      *)
(* reference {{prefix.artifacts.name}} in the argument becomes             *)
(* {{prefix.parameters.name-subpath}}, prefix unchanged, and the result    *)
(* contains '.parameters.' and no '.artifacts.' segment.                   *)
(***************************************************************************)
C9_ReferenceTranslationNoArtifactsLeft ==
    (WasTranslated /\ HoldsReferences) =>
        /\ translated = Spell(ExpectedTokens(tokens))
        /\ Contains(translated, dot_parameters_dot)
        /\ ~Contains(translated, dot_artifacts_dot)

(***************************************************************************)
(* C9, amended.  Every well-formed artifact reference in the argument      *)
(* becomes {{prefix.parameters.name-subpath}}, prefix unchanged; the       *)
(* result contains '.parameters.', and the only '.artifacts.' segments     *)
(* left in it are those of the unchanged prefixes (a step or task whose    *)
(* id is `artifacts`).                                                     *)
(***************************************************************************)
C9_ReferenceTranslation ==
    (WasTranslated /\ HoldsReferences) =>
        /\ translated = Spell(ExpectedTokens(tokens))
        /\ Contains(translated, dot_parameters_dot)
        /\ Count(translated, dot_artifacts_dot) = SegmentsInPrefixes(tokens)

\* Two references were translated in one string, one of them to the outputs
\* of a task whose id is `artifacts`.
C9_Witness ==
    /\ WasTranslated
    /\ HoldsReferences
    /\ Len(tokens) = 2
    /\ tokens[1].kind = "artifact"
    /\ tokens[2].kind = "artifact"
    /\ tokens[2].prefix = prefix_tasks_artifacts
    /\ translated # reference

\* No brace-delimited token of the argument has an '.artifacts.' segment:
\* parameter references of other tasks, plain text, ill-formed tokens.
NoArtifactsToken ==
    \A k \in 1..Len(tokens) :
        \/ tokens[k].kind \in {"text", "illformed"}
        \/ /\ tokens[k].kind = "parameter"
           /\ ~Contains(tokens[k].text, dot_artifacts_dot)

\* The argument mixes artifact references with other tokens.
IsMixed ==
    /\ \E k \in 1..Len(tokens) : tokens[k].kind = "artifact"
    /\ \E k \in 1..Len(tokens) : tokens[k].kind # "artifact"

\* The tokens with each artifact reference translated on its own and every
\* other token as it was.
ReferencesTranslated(ts) ==
    [k \in 1..Len(ts) |->
        IF ts[k].kind = "artifact"
        THEN [ts[k] EXCEPT !.text =
                  convert_artifact_reference_to_parameter_reference(ts[k].text)]
        ELSE ts[k]]

(***************************************************************************)
(* C10.  The translator leaves everything else untouched: a string without *)
(* a well-formed artifact reference is returned unchanged; in a mixed      *)
(* string only the artifact references change, the parameter references    *)
(* and the text around them staying as they are; and translating the       *)
(* result again changes nothing.                                           *)
(***************************************************************************)
C10_OnlyArtifactReferencesChange ==
    /\ (WasTranslated /\ NoArtifactsToken) => translated = reference
    /\ (WasTranslated /\ IsMixed) => translated = Spell(ReferencesTranslated(tokens))
    /\ pc = "retranslated" => retranslated = translated

(***************************************************************************)
(* Reading the given workflow: the file names of its artifact paths.       *)
(***************************************************************************)
\* The part of a path after its last '/'.
FileName(path) ==
    LET cut == CHOOSE k \in 0..Len(path) :
                   /\ k = 0 \/ path[k] = "/"
                   /\ \A m \in (k + 1)..Len(path) : path[m] # "/"
    IN  SubSeq(path, cut + 1, Len(path))

\* The file names of the artifact paths of the container templates.
GivenFileNames ==
    UNION {{FileName(InputArtifacts(GivenTemplates[i])[k]["path"]) :
                k \in 1..Len(InputArtifacts(GivenTemplates[i]))}
           \cup {FileName(OutputArtifacts(GivenTemplates[i])[k]["path"]) :
                    k \in 1..Len(OutputArtifacts(GivenTemplates[i]))} :
           i \in {t \in 1..Len(GivenTemplates) : IsContainerTemplate(GivenTemplates[t])}}

\* Nothing in the given workflow is unsupported: no constant artifact
\* argument on a task or step, no workflow-level argument artifacts.
IsSupported ==
    /\ ~HasConstantArgument(GivenTemplates)
    /\ ~Truthy(WorkflowArgumentArtifacts(snapshot.workflow))

(***************************************************************************)
(* C11.  Naming-divergence warning: when the artifact paths of the         *)
(* container templates have more than one distinct file name, the rewrite  *)
(* of a supported workflow warns exactly once and still returns the        *)
(* rewritten workflow; when they have at most one distinct file name, no   *)
(* warning is emitted, however the call ends.                              *)
(***************************************************************************)
C11_NamingDivergenceWarning ==
    CallOver =>
        /\ (Cardinality(GivenFileNames) > 1 /\ IsSupported) =>
              (Returned /\ warnings = 1 /\ result # "")
        /\ Cardinality(GivenFileNames) <= 1 => warnings = 0
        /\ warnings <= 1

\* A rewrite of templates whose artifact files have two names warned and
\* returned.
C11_Witness ==
    /\ Returned
    /\ Cardinality(GivenFileNames) = 2
    /\ warnings = 1

(***************************************************************************)
(* Reading the volume declarations.                                        *)
(***************************************************************************)
\* The value of a list element that may be a reference to an object.
Resolved(element) == IF IsRef(element) THEN heap[element.object] ELSE element

GivenVolumes == Get(snapshot.workflow["spec"], "volumes", EmptyList)
ReturnedVolumes == heap[result]["spec"]["volumes"]

\* The descriptor the caller passed, as the dict the rewrite receives.
GivenDescriptor ==
    IF IsDict(snapshot.volume) THEN snapshot.volume
    ELSE sanitize_for_serialization(snapshot.volume)

\* The mounts the rewrite added to container template i.
GeneratedMounts(i) ==
    SubSeq(VolumeMounts(RewrittenTemplates[i]),
           Len(VolumeMounts(GivenTemplates[i])) + 1,
           Len(VolumeMounts(RewrittenTemplates[i])))

(***************************************************************************)
(* C12.  Shared volume declaration: the returned workflow's spec.volumes   *)
(* is the given volume list (empty when absent) followed by exactly one    *)
(* new entry, the given volume descriptor with its name overwritten to     *)
(* 'data-storage'; every mount the rewrite generated names that volume.    *)
(***************************************************************************)
C12_SharedVolumeDeclaration ==
    Returned =>
        /\ Len(ReturnedVolumes) = Len(GivenVolumes) + 1
        /\ SubSeq(ReturnedVolumes, 1, Len(GivenVolumes)) = GivenVolumes
        /\ Resolved(ReturnedVolumes[Len(ReturnedVolumes)]) =
              Put(GivenDescriptor, "name", data_volume_name)
        /\ \A i \in 1..Len(GivenTemplates) :
              IsContainerTemplate(GivenTemplates[i]) =>
                  \A k \in 1..Len(GeneratedMounts(i)) :
                      GeneratedMounts(i)[k]["name"] =
                          Resolved(ReturnedVolumes[Len(ReturnedVolumes)])["name"]

\* A rewrite returned a workflow that had a volume of its own, was given a
\* descriptor with another name, and has generated mounts.
C12_Witness ==
    /\ Returned
    /\ Len(GivenVolumes) > 0
    /\ GivenDescriptor["name"] # data_volume_name
    /\ \E i \in 1..Len(GivenTemplates) :
          /\ IsContainerTemplate(GivenTemplates[i])
          /\ Len(GeneratedMounts(i)) > 0

(***************************************************************************)
(* C13.  The rewrite always succeeds on a well-formed input: a call on a   *)
(* workflow with no constant artifact argument at task or workflow scope   *)
(* never raises, and when it is over it has returned a rewritten workflow, *)
(* for any mix of template kinds, a workflow without container template    *)
(* whose DAG or steps templates declare artifacts included.                *)
(***************************************************************************)
C13_AlwaysSucceeds ==
    IsSupported =>
        /\ ~Raised
        /\ error = ""
        /\ CallOver => (Returned /\ result # "")

(***************************************************************************)
(* Reading what the rewrite kept.                                          *)
(***************************************************************************)
\* `now` is `before` with exactly `added` more elements after it.
Extends(before, now, added) ==
    /\ Len(now) = Len(before) + added
    /\ SubSeq(now, 1, Len(before)) = before

\* What a task or step is in the graph: its name, template and dependencies.
GraphNode(task) ==
    [name |-> task["name"],
     template |-> task["template"],
     dependencies |-> Get(task, "dependencies", EmptyList)]

GroupSizes(template) == [g \in 1..Len(StepGroups(template)) |-> Len(StepGroups(template)[g])]

\* The parameter lists and the mounts of template i only grew, by one entry
\* per artifact.
TemplateListsExtended(i) ==
    LET given == GivenTemplates[i]
        now == RewrittenTemplates[i]
    IN  /\ Extends(InputParameters(given), InputParameters(now), Len(InputArtifacts(given)))
        /\ Extends(OutputParameters(given), OutputParameters(now), Len(OutputArtifacts(given)))
        /\ IsContainerTemplate(given) =>
              Extends(VolumeMounts(given), VolumeMounts(now),
                      Len(InputArtifacts(given)) + Len(OutputArtifacts(given)))

\* The tasks and steps of template i are the same nodes, and their
\* parameter arguments only grew, by one entry per artifact argument.
TasksKept(i) ==
    LET given == TasksAndSteps(GivenTemplates[i])
        now == TasksAndSteps(RewrittenTemplates[i])
    IN  /\ Len(now) = Len(given)
        /\ GroupSizes(RewrittenTemplates[i]) = GroupSizes(GivenTemplates[i])
        /\ Len(DagTasks(RewrittenTemplates[i])) = Len(DagTasks(GivenTemplates[i]))
        /\ \A k \in 1..Len(given) :
              /\ GraphNode(now[k]) = GraphNode(given[k])
              /\ Extends(ArgumentParameters(given[k]), ArgumentParameters(now[k]),
                         Len(ArgumentArtifacts(given[k])))

(***************************************************************************)
(* C14.  The rewrite preserves graph and naming and is append-only on      *)
(* existing lists: the returned workflow has the same templates in the     *)
(* same order with the same names; every task and step keeps its name,     *)
(* template reference and dependencies; every parameter and volume mount   *)
(* that existed before is still there, unchanged and in its position, the  *)
(* generated entries coming after them, one per artifact (an existing      *)
(* parameter named n-subpath is neither overwritten nor merged).           *)
(***************************************************************************)
C14_GraphAndListsPreserved ==
    Returned =>
        /\ Len(RewrittenTemplates) = Len(GivenTemplates)
        /\ \A i \in 1..Len(GivenTemplates) :
              /\ RewrittenTemplates[i]["name"] = GivenTemplates[i]["name"]
              /\ TemplateListsExtended(i)
              /\ TasksKept(i)

\* A rewrite returned a workflow with a container template that had a
\* mount and a parameter named x-subpath of its own next to an input
\* artifact x, and with a task that had dependencies and a parameter
\* argument of its own next to an artifact argument.
C14_Witness ==
    /\ Returned
    /\ \E i \in 1..Len(GivenTemplates) :
          /\ IsContainerTemplate(GivenTemplates[i])
          /\ Len(VolumeMounts(GivenTemplates[i])) > 0
          /\ \E k \in 1..Len(InputArtifacts(GivenTemplates[i])) :
                HasNamed(InputParameters(GivenTemplates[i]),
                         Suffixed(InputArtifacts(GivenTemplates[i])[k]["name"]))
    /\ \E i \in 1..Len(GivenTemplates) :
          \E k \in 1..Len(TasksAndSteps(GivenTemplates[i])) :
              LET task == TasksAndSteps(GivenTemplates[i])[k]
              IN  /\ Len(Get(task, "dependencies", EmptyList)) > 0
                  /\ Len(ArgumentParameters(task)) > 0
                  /\ Len(ArgumentArtifacts(task)) > 0

(***************************************************************************)
(* Reading a `from` expression: one reference {{prefix.artifacts.name}}.   *)
(***************************************************************************)
\* The reference with its last '.artifacts.' turned into '.parameters.' and
\* the suffix put after the name.
TranslationOf(from) ==
    LET at == CHOOSE j \in 1..Len(from) :
                  /\ StartsWithAt(from, j, dot_artifacts_dot)
                  /\ \A m \in (j + 1)..Len(from) : ~StartsWithAt(from, m, dot_artifacts_dot)
    IN  SubSeq(from, 1, at - 1) \o dot_parameters_dot
            \o SubSeq(from, at + Len(dot_artifacts_dot), Len(from) - Len(close_braces))
            \o subpath_parameter_name_suffix \o close_braces

\* Output artifact k of template i was threaded.
OutputThreaded(i, k) ==
    LET artifact == OutputArtifacts(GivenTemplates[i])[k]
    IN  Has(artifact, "from") =>
            Appended(OutputParameters(GivenTemplates[i]),
                     OutputParameters(RewrittenTemplates[i]),
                     [name |-> Suffixed(artifact["name"]),
                      valueFrom |-> [parameter |-> TranslationOf(artifact["from"])]])

\* Artifact argument a of task or step k of template i was threaded.
ArgumentThreaded(i, k, a) ==
    LET artifact == ArgumentArtifacts(TasksAndSteps(GivenTemplates[i])[k])[a]
    IN  Has(artifact, "from") =>
            Appended(ArgumentParameters(TasksAndSteps(GivenTemplates[i])[k]),
                     ArgumentParameters(TasksAndSteps(RewrittenTemplates[i])[k]),
                     [name |-> Suffixed(artifact["name"]),
                      value |-> TranslationOf(artifact["from"])])

(***************************************************************************)
(* C15.  Pass 2 reference threading: in every DAG or steps template, each  *)
(* output artifact with a `from` yields an appended output parameter       *)
(* name-subpath whose valueFrom.parameter is the translated `from`, and    *)
(* each artifact argument with a `from`, on every DAG task and on every    *)
(* step of every group, yields an appended parameter argument name-subpath *)
(* on that task or step whose value is the translated `from`.              *)
(***************************************************************************)
C15_ReferenceThreading ==
    Returned =>
        \A i \in 1..Len(GivenTemplates) :
            IsDagOrSteps(GivenTemplates[i]) =>
                /\ \A k \in 1..Len(OutputArtifacts(GivenTemplates[i])) : OutputThreaded(i, k)
                /\ \A k \in 1..Len(TasksAndSteps(GivenTemplates[i])) :
                      \A a \in 1..Len(ArgumentArtifacts(TasksAndSteps(GivenTemplates[i])[k])) :
                          ArgumentThreaded(i, k, a)

\* A rewrite returned a workflow with a DAG whose task passes an artifact
\* by reference and a steps template that has an output artifact with a
\* `from` and a step passing an artifact by reference.
C15_Witness ==
    /\ Returned
    /\ \E i \in 1..Len(GivenTemplates) :
          /\ Has(GivenTemplates[i], "dag")
          /\ \E k \in 1..Len(DagTasks(GivenTemplates[i])) :
                \E a \in 1..Len(ArgumentArtifacts(DagTasks(GivenTemplates[i])[k])) :
                    Has(ArgumentArtifacts(DagTasks(GivenTemplates[i])[k])[a], "from")
    /\ \E i \in 1..Len(GivenTemplates) :
          /\ Has(GivenTemplates[i], "steps")
          /\ \E k \in 1..Len(OutputArtifacts(GivenTemplates[i])) :
                Has(OutputArtifacts(GivenTemplates[i])[k], "from")
          /\ \E k \in 1..Len(TasksAndSteps(GivenTemplates[i])) :
                \E a \in 1..Len(ArgumentArtifacts(TasksAndSteps(GivenTemplates[i])[k])) :
                    Has(ArgumentArtifacts(TasksAndSteps(GivenTemplates[i])[k])[a], "from")

(***************************************************************************)
(* C16.  Pass 2 touches only the DAG or steps template it is processing:   *)
(* an iteration of pass 2 leaves every other template as it was, adds no   *)
(* mount and no volumeMounts field to any template, so that every          *)
(* container template is after pass 2 what it was after pass 1; and a      *)
(* container template that declares no artifacts is the same before and    *)
(* after the whole rewrite.                                                *)
(***************************************************************************)
C16_PassTwoIsLocal ==
    [][/\ pc = "pass2" =>
            \A i \in 1..Len(Templates) :
                (i # idx \/ IsContainerTemplate(Templates[i])) =>
                    heap'[workflow]["spec"]["templates"][i] = Templates[i]
       /\ pc' = "returned" =>
            \A i \in 1..Len(GivenTemplates) :
                (/\ IsContainerTemplate(GivenTemplates[i])
                 /\ ~Truthy(InputArtifacts(GivenTemplates[i]))
                 /\ ~Truthy(OutputArtifacts(GivenTemplates[i])))
                    => heap'[result']["spec"]["templates"][i] = GivenTemplates[i]]_vars

(***************************************************************************)
(* C17.  Fate of the superseded artifact entries: after a successful       *)
(* rewrite the output artifact entries of the DAG and steps templates are  *)
(* gone from the template, while the input and output artifact entries of  *)
(* the container templates and the input artifact entries of the DAG and   *)
(* steps templates are still there, unchanged.                             *)
(***************************************************************************)
C17_SupersededArtifactEntries ==
    Returned =>
        \A i \in 1..Len(GivenTemplates) :
            /\ IsDagOrSteps(GivenTemplates[i]) =>
                  /\ ~Has(Get(RewrittenTemplates[i], "outputs", EmptyDict), "artifacts")
                  /\ InputArtifacts(RewrittenTemplates[i]) = InputArtifacts(GivenTemplates[i])
            /\ IsContainerTemplate(GivenTemplates[i]) =>
                  /\ InputArtifacts(RewrittenTemplates[i]) = InputArtifacts(GivenTemplates[i])
                  /\ OutputArtifacts(RewrittenTemplates[i]) = OutputArtifacts(GivenTemplates[i])

====
